---- MODULE Spec2Model ----
(***************************************************************************)
(* The tool-calling engine of the WebMCP proof of concept: AgentClient     *)
(* (handleSend, processUserPromptWithLLM), LLMClient (generateResponse,    *)
(* callOpenAI, processOpenAIResponse, handleFunctionResult), the mock      *)
(* window.agent registry (provideContext, invokeTool), the four Fidelity   *)
(* tools and the transfer form of fidelityApp.js.                          *)
(*                                                                         *)
(* JavaScript runs one task at a time: an action below is one task, the    *)
(* code from an event or a settled promise up to the next await of a fetch *)
(* or of invokeTool.  The provider's replies and the user's events are the *)
(* inputs, drawn from the sets Replies and Prompts.                        *)
(*                                                                         *)
(* Decorations of the page that no engine decision reads (the highlight of *)
(* an account row, the bars of the performance chart, the typing           *)
(* indicator, scrolling) are not part of the state.                        *)
(***************************************************************************)
EXTENDS Integers, Sequences, FiniteSets, TLC

(***************************************************************************)
(* Bounds of the model.                                                    *)
(***************************************************************************)
\* accepted submissions (handleSend calls that pass both guards) per run
MaxSubmissions == 2
\* turns pushed to conversationHistory per run; a submission may push four
\* (user, assistant, tool, assistant) and is accepted while they fit
MaxTurns == 8
\* tools in one batch passed to provideContext
MaxBatch == 2
\* invokeTool calls made directly on window.agent per run
MaxDirectCalls == 2
\* calls of LLMClient.reset per run
MaxResets == 1

(***************************************************************************)
(* JavaScript values.  A value carries its type; v is the text of a string *)
(* or the decimal text of a number.                                        *)
(***************************************************************************)
Undefined == [t |-> "undefined", v |-> ""]
Null == [t |-> "null", v |-> ""]
Str(s) == [t |-> "string", v |-> s]
Num(s) == [t |-> "number", v |-> s]

\* ToBoolean of a value, as `if (x)` applies it
Truthy(x) ==
    CASE x.t = "string" -> x.v # ""
      [] x.t = "number" -> x.v # "0"
      [] OTHER -> FALSE

\* The characters of the strings that the account search compares.
Chars(s) ==
    CASE s = "Brokerage Account" -> <<"B", "r", "o", "k", "e", "r", "a", "g", "e", " ", "A", "c", "c", "o", "u", "n", "t">>
      [] s = "Roth IRA" -> <<"R", "o", "t", "h", " ", "I", "R", "A">>
      [] s = "401(k) Rollover" -> <<"4", "0", "1", "(", "k", ")", " ", "R", "o", "l", "l", "o", "v", "e", "r">>
      [] s = "Cash Management" -> <<"C", "a", "s", "h", " ", "M", "a", "n", "a", "g", "e", "m", "e", "n", "t">>
      [] s = "brokerage" -> <<"b", "r", "o", "k", "e", "r", "a", "g", "e">>
      [] s = "roth" -> <<"r", "o", "t", "h">>
      [] s = "Roth" -> <<"R", "o", "t", "h">>
      [] s = "savings" -> <<"s", "a", "v", "i", "n", "g", "s">>
      [] s = "checking" -> <<"c", "h", "e", "c", "k", "i", "n", "g">>
      [] s = "" -> <<>>

LowerChar(c) ==
    CASE c = "A" -> "a"
      [] c = "B" -> "b"
      [] c = "C" -> "c"
      [] c = "I" -> "i"
      [] c = "M" -> "m"
      [] c = "R" -> "r"
      [] OTHER -> c

\* String.prototype.toLowerCase, on the characters
ToLowerCase(s) == [i \in 1..Len(Chars(s)) |-> LowerChar(Chars(s)[i])]

\* String.prototype.includes, on characters
Includes(hay, needle) ==
    \E i \in 0..(Len(hay) - Len(needle)) :
        SubSeq(hay, i + 1, i + Len(needle)) = needle

\* Number.prototype.toFixed(2) on the amounts and balances of the model
ToFixed2(n) ==
    CASE n = "1000" -> "1000.00"
      [] n = "250.5" -> "250.50"
      [] n = "15430.25" -> "15430.25"
      [] n = "89500.75" -> "89500.75"
      [] n = "245100.4" -> "245100.40"
      [] n = "5200" -> "5200.00"

(***************************************************************************)
(* fidelityApp.js: the accounts and the transfer form.                     *)
(***************************************************************************)
\* Object.values(mockAccountData), in insertion order
InitialAccounts ==
    << [id |-> "acc_brokerage_123", name |-> "Brokerage Account", balance |-> "15430.25", type |-> "taxable"],
       [id |-> "acc_roth_456", name |-> "Roth IRA", balance |-> "89500.75", type |-> "retirement"],
       [id |-> "acc_401k_789", name |-> "401(k) Rollover", balance |-> "245100.4", type |-> "retirement"],
       [id |-> "acc_cash_101", name |-> "Cash Management", balance |-> "5200", type |-> "cash"] >>

\* the three read-only inputs of the form and the display of #transfer-module
InitialForm == [fromAccount |-> "", toAccount |-> "", amount |-> "", visible |-> FALSE]

\* a line of #ai-chat-history
Msg(sender, text) == [sender |-> sender, text |-> text]

\* mockAccountData[id]?.name || 'N/A'
AccountName(accounts, id) ==
    IF \E i \in 1..Len(accounts) : accounts[i].id = id
    THEN (CHOOSE a \in {accounts[i] : i \in 1..Len(accounts)} : a.id = id).name
    ELSE "N/A"

\* App.showTransferModal: fills from and to, then amount.toFixed(2), which
\* throws a TypeError unless amount is a number, then shows the module.
ShowTransferModal(app, from, to, amount) ==
    LET filled == [app.form EXCEPT !.fromAccount = AccountName(app.accounts, from),
                                   !.toAccount = AccountName(app.accounts, to)]
    IN IF amount.t # "number"
       THEN [threw |-> TRUE, app |-> [app EXCEPT !.form = filled]]
       ELSE [threw |-> FALSE,
             app |-> [app EXCEPT !.form = [filled EXCEPT !.amount = ToFixed2(amount.v),
                                                         !.visible = TRUE]]]

\* App.hideTransferModal
HideTransferModal(app) == [app EXCEPT !.form.visible = FALSE]

\* App.displayAgentMessage
DisplayAgentMessage(app, message) ==
    [app EXCEPT !.chat = Append(app.chat, Msg("agent", message))]

(***************************************************************************)
(* webmcpProvider.js: the four tools.  An executor maps the parsed         *)
(* arguments and the application state to: whether it threw, the result it *)
(* returned, and the application state it left.                            *)
(***************************************************************************)
\* parsed arguments: t is "object" or "null"; an absent property is Undefined
Args(ai, tp, fa, ta, am) ==
    [t |-> "object", accountIdentifier |-> ai, timePeriod |-> tp,
     fromAccount |-> fa, toAccount |-> ta, amount |-> am]
NullArgs == [Args(Undefined, Undefined, Undefined, Undefined, Undefined) EXCEPT !.t = "null"]

NoResult == [none |-> TRUE]
Threw(app) == [threw |-> TRUE, result |-> NoResult, app |-> app]
Returned(result, app) == [threw |-> FALSE, result |-> result, app |-> app]

\* Object.values(mockAccountData).find(acc => acc.name.toLowerCase().includes(lower)):
\* the index of the first match, 0 when there is none
FindAccount(accounts, lower) ==
    LET hits == {i \in 1..Len(accounts) : Includes(ToLowerCase(accounts[i].name), lower)}
    IN IF hits = {} THEN 0 ELSE CHOOSE i \in hits : \A j \in hits : i <= j

GetAccountListExecute(args, app) ==
    Returned([success |-> TRUE, accounts |-> app.accounts], app)

GetAccountBalanceExecute(args, app) ==
    IF args.t = "null" \/ args.accountIdentifier.t # "string"
    THEN Threw(app)   \* destructuring null, or toLowerCase of a non-string
    ELSE LET i == FindAccount(app.accounts, ToLowerCase(args.accountIdentifier.v))
         IN IF i # 0
            THEN Returned([success |-> TRUE, accountName |-> app.accounts[i].name,
                           balance |-> app.accounts[i].balance], app)
            ELSE Returned([success |-> FALSE,
                           message |-> "Account '" \o args.accountIdentifier.v \o "' not found."], app)

GetPortfolioPerformanceExecute(args, app) ==
    IF args.t = "null"
    THEN Threw(app)
    ELSE Returned([success |-> TRUE,
                   message |-> "Portfolio performance chart is now showing data for '"
                               \o (IF args.timePeriod.t = "undefined" THEN "undefined" ELSE args.timePeriod.v)
                               \o "'."], app)

\* an executor that runs the submit handler itself instead of staging
InitiateFundTransferMutCommit(args, app) ==
    Returned([success |-> TRUE,
              message |-> "I've prepared the transfer for you. Please review and click 'Submit' to complete it."],
             HideTransferModal(DisplayAgentMessage(app, "Transfer submitted successfully!")))

\* an executor that writes a balance while it stages
InitiateFundTransferMutDebit(args, app) ==
    Returned([success |-> TRUE,
              message |-> "I've prepared the transfer for you. Please review and click 'Submit' to complete it."],
             [app EXCEPT !.accounts[1].balance = "5200"])

\* an executor that fills the form with what it found before it checks
InitiateFundTransferMutStageFirst(args, app) ==
    LET fromAcc == FindAccount(app.accounts, ToLowerCase(args.fromAccount.v))
        toAcc == FindAccount(app.accounts, ToLowerCase(args.toAccount.v))
        shown == ShowTransferModal(app, IF fromAcc = 0 THEN "" ELSE app.accounts[fromAcc].id,
                                   IF toAcc = 0 THEN "" ELSE app.accounts[toAcc].id, args.amount)
    IN IF args.t = "null" \/ args.fromAccount.t # "string" \/ args.toAccount.t # "string" \/ shown.threw
       THEN Threw(app)
       ELSE IF fromAcc = 0 \/ toAcc = 0
       THEN Returned([success |-> FALSE,
                      message |-> "Account(s) not found. From: " \o args.fromAccount.v
                                  \o (IF fromAcc # 0 THEN " [v]" ELSE " [x]")
                                  \o ", To: " \o args.toAccount.v
                                  \o (IF toAcc # 0 THEN " [v]" ELSE " [x]")], shown.app)
       ELSE Returned([success |-> TRUE,
                      message |-> "I've prepared the transfer for you. Please review and click 'Submit' to complete it."],
                     shown.app)

\* initiateFundTransfer.execute; the marks [v] and [x] of the message stand
\* for the check mark and the cross of the source
InitiateFundTransferExecute(args, app) ==
    IF args.t = "null" \/ args.fromAccount.t # "string" \/ args.toAccount.t # "string"
    THEN Threw(app)
    ELSE LET fromAcc == FindAccount(app.accounts, ToLowerCase(args.fromAccount.v))
             toAcc == FindAccount(app.accounts, ToLowerCase(args.toAccount.v))
         IN IF fromAcc = 0 \/ toAcc = 0
            THEN Returned([success |-> FALSE,
                           message |-> "Account(s) not found. From: " \o args.fromAccount.v
                                       \o (IF fromAcc # 0 THEN " [v]" ELSE " [x]")
                                       \o ", To: " \o args.toAccount.v
                                       \o (IF toAcc # 0 THEN " [v]" ELSE " [x]")], app)
            ELSE LET shown == ShowTransferModal(app, app.accounts[fromAcc].id,
                                                app.accounts[toAcc].id, args.amount)
                 IN IF shown.threw
                    THEN Threw(shown.app)
                    ELSE Returned([success |-> TRUE,
                                   message |-> "I've prepared the transfer for you. Please review and click 'Submit' to complete it."],
                                  shown.app)

(***************************************************************************)
(* main.js: the registry window.agent.tools and invokeTool.                *)
(***************************************************************************)
Tool(name, description, required) ==
    [name |-> name, description |-> description,
     inputSchema |-> [type |-> "object", required |-> required], execute |-> name]

\* the batch registerFidelityTools passes to provideContext
FidelityTools ==
    << Tool("getAccountList", "Retrieves a list of all the user's available accounts", <<>>),
       Tool("getAccountBalance", "Gets the current total market value for a specific account", <<"accountIdentifier">>),
       Tool("getPortfolioPerformance", "Retrieves the historical investment performance data", <<"timePeriod">>),
       Tool("initiateFundTransfer", "Pre-fills the fund transfer form", <<"fromAccount", "toAccount", "amount">>) >>

\* tool.execute(parameters), by the executor the tool carries
Execute(tool, args, app) ==
    CASE tool.execute = "getAccountList" -> GetAccountListExecute(args, app)
      [] tool.execute = "getAccountBalance" -> GetAccountBalanceExecute(args, app)
      [] tool.execute = "getPortfolioPerformance" -> GetPortfolioPerformanceExecute(args, app)
      [] tool.execute = "initiateFundTransfer" -> InitiateFundTransferExecute(args, app)

\* Map.prototype.has and get on the registry (a sequence in insertion order)
ToolsHas(registry, name) == \E i \in 1..Len(registry) : registry[i].name = name
ToolsGet(registry, name) ==
    registry[CHOOSE i \in 1..Len(registry) : registry[i].name = name]

\* a second tool that carries the name getAccountBalance
AltBalanceTool ==
    [Tool("getAccountBalance", "Lists the accounts under the name of the balance tool", <<>>)
        EXCEPT !.execute = "getAccountList"]

\* the tools a caller of provideContext may put in context.tools
ToolPool == {FidelityTools[i] : i \in 1..Len(FidelityTools)} \cup {AltBalanceTool}
Batches == UNION {[1..n -> ToolPool] : n \in 0..MaxBatch}

\* Map.prototype.set: the value of an existing key is replaced where it
\* stands, a new key is added at the end
MapSet(registry, tool) ==
    IF ToolsHas(registry, tool.name)
    THEN [i \in 1..Len(registry) |-> IF registry[i].name = tool.name THEN tool ELSE registry[i]]
    ELSE Append(registry, tool)

RECURSIVE SetEach(_, _)
\* context.tools.forEach(tool => this.tools.set(tool.name, tool))
SetEach(registry, batch) ==
    IF batch = <<>> THEN registry
    ELSE SetEach(MapSet(registry, Head(batch)), Tail(batch))

\* a provideContext that keeps the tools registered before
ProvideContextToolsMutNoClear(registry, batch) == SetEach(registry, batch)

\* the registry provideContext leaves: this.tools.clear(), then the forEach
ProvideContextTools(registry, batch) == SetEach(<<>>, batch)

\* What the awaited invokeTool promise holds: executed, the executor was
\* called; threw, it raised; escaped, the promise rejects; result and app.
Settled(executed, threw, result, app) ==
    [executed |-> executed, threw |-> threw, escaped |-> FALSE, result |-> result, app |-> app]

\* an invokeTool that runs the first registered tool for an unknown name
InvokeToolMutUnknownRuns(registry, toolName, parameters, app) ==
    LET tool == IF ToolsHas(registry, toolName) THEN ToolsGet(registry, toolName) ELSE registry[1]
        out == Execute(tool, parameters, app)
    IN IF out.threw
       THEN Settled(TRUE, TRUE, [success |-> FALSE, message |-> "An internal error occurred."], out.app)
       ELSE Settled(TRUE, FALSE, out.result, out.app)

\* an invokeTool without its try and catch: the executor's throw escapes
InvokeToolMutNoCatch(registry, toolName, parameters, app) ==
    IF ToolsHas(registry, toolName)
    THEN LET out == Execute(ToolsGet(registry, toolName), parameters, app)
         IN IF out.threw
            THEN [Settled(TRUE, TRUE, NoResult, out.app) EXCEPT !.escaped = TRUE]
            ELSE Settled(TRUE, FALSE, out.result, out.app)
    ELSE Settled(FALSE, FALSE, [success |-> FALSE, message |-> "Unknown action."], app)

\* mockAgentAPI.invokeTool
InvokeTool(registry, toolName, parameters, app) ==
    IF ToolsHas(registry, toolName)
    THEN LET out == Execute(ToolsGet(registry, toolName), parameters, app)
         IN IF out.threw
            THEN Settled(TRUE, TRUE, [success |-> FALSE, message |-> "An internal error occurred."], out.app)
            ELSE Settled(TRUE, FALSE, out.result, out.app)
    ELSE Settled(FALSE, FALSE, [success |-> FALSE, message |-> "Unknown action."], app)

(***************************************************************************)
(* config.js                                                               *)
(***************************************************************************)
\* the configurations a deployment can be given; apiKey "" is no key
Configs ==
    [provider : {"openai", "anthropic"}, apiKey : {"", "sk-test"}, enableMockMode : BOOLEAN]

\* a getApiKey that looks at mock mode before the configured key
GetApiKeyMutMockFirst(cfg) ==
    IF cfg.enableMockMode THEN [threw |-> FALSE, key |-> "mock-key"]
    ELSE IF cfg.apiKey # "" THEN [threw |-> FALSE, key |-> cfg.apiKey]
    ELSE [threw |-> TRUE, key |-> ""]

\* a getApiKey that hands out whatever is configured, the empty key included
GetApiKeyMutNoThrow(cfg) == [threw |-> FALSE, key |-> cfg.apiKey]

\* Config.getApiKey
GetApiKey(cfg) ==
    IF cfg.apiKey # "" THEN [threw |-> FALSE, key |-> cfg.apiKey]
    ELSE IF cfg.enableMockMode THEN [threw |-> FALSE, key |-> "mock-key"]
    ELSE [threw |-> TRUE, key |-> ""]

(***************************************************************************)
(* The provider's replies, and the turns of conversationHistory.           *)
(***************************************************************************)
\* the argument strings a reply may carry, and JSON.parse of each
RawRoth == "{\"accountIdentifier\":\"Roth IRA\"}"
RawSavings == "{\"accountIdentifier\":\"savings\"}"
RawEmptyObject == "{}"
RawNull == "null"
RawBad == "{\"accountIdentifier\":"
RawYTD == "{\"timePeriod\":\"YTD\"}"
RawTransfer == "{\"fromAccount\":\"brokerage\",\"toAccount\":\"Roth\",\"amount\":1000}"
RawTransferNoAccount == "{\"fromAccount\":\"brokerage\",\"toAccount\":\"savings\",\"amount\":1000}"
RawTransferNoSource == "{\"fromAccount\":\"checking\",\"toAccount\":\"Roth\",\"amount\":1000}"
RawTransferTextAmount == "{\"fromAccount\":\"brokerage\",\"toAccount\":\"Roth\",\"amount\":\"1000\"}"

\* a parser that accepts every string, as an object without properties
JSONParseMutLenient(raw) ==
    [ok |-> TRUE, value |-> Args(Undefined, Undefined, Undefined, Undefined, Undefined)]

\* JSON.parse on the argument strings above; any other string is a SyntaxError
JSONParse(raw) ==
    LET U == Undefined
        ok(v) == [ok |-> TRUE, value |-> v]
    IN CASE raw = RawRoth -> ok(Args(Str("Roth IRA"), U, U, U, U))
         [] raw = RawSavings -> ok(Args(Str("savings"), U, U, U, U))
         [] raw = RawEmptyObject -> ok(Args(U, U, U, U, U))
         [] raw = RawNull -> ok(NullArgs)
         [] raw = RawYTD -> ok(Args(U, Str("YTD"), U, U, U))
         [] raw = RawTransfer -> ok(Args(U, U, Str("brokerage"), Str("Roth"), Num("1000")))
         [] raw = RawTransferNoAccount -> ok(Args(U, U, Str("brokerage"), Str("savings"), Num("1000")))
         [] raw = RawTransferNoSource -> ok(Args(U, U, Str("checking"), Str("Roth"), Num("1000")))
         [] raw = RawTransferTextAmount -> ok(Args(U, U, Str("brokerage"), Str("Roth"), Str("1000")))
         [] OTHER -> [ok |-> FALSE, value |-> NullArgs]   \* SyntaxError

\* Array.prototype.join
RECURSIVE Join(_, _)
Join(names, sep) ==
    IF names = <<>> THEN ""
    ELSE IF Len(names) = 1 THEN names[1]
    ELSE names[1] \o sep \o Join(Tail(names), sep)

\* JSON.stringify of a tool result: its properties in the order the
\* executors and invokeTool write them, strings quoted, numbers as they are
JSONStringify(result) ==
    LET q(str) == "\"" \o str \o "\""
        bool(b) == IF b THEN "true" ELSE "false"
        account(a) == "{\"id\":" \o q(a.id) \o ",\"name\":" \o q(a.name)
                      \o ",\"balance\":" \o a.balance \o ",\"type\":" \o q(a.type) \o "}"
        head == "{\"success\":" \o bool(result.success)
    IN CASE "accounts" \in DOMAIN result ->
               head \o ",\"accounts\":["
               \o Join([i \in 1..Len(result.accounts) |-> account(result.accounts[i])], ",") \o "]}"
         [] "accountName" \in DOMAIN result ->
               head \o ",\"accountName\":" \o q(result.accountName)
               \o ",\"balance\":" \o result.balance \o "}"
         [] "message" \in DOMAIN result -> head \o ",\"message\":" \o q(result.message) \o "}"
         [] OTHER -> head \o "}"

\* an entry of message.tool_calls: id, function.name, function.arguments
Call(id, name, arguments) == [id |-> id, name |-> name, arguments |-> arguments]

Turn(role, content, calls, callId) ==
    [role |-> role, content |-> content, tool_calls |-> calls, tool_call_id |-> callId]
UserTurn(text) == Turn("user", Str(text), <<>>, Undefined)
AssistantTurn(content, calls) == Turn("assistant", content, calls, Undefined)
\* a tool turn that carries a summary of the result in place of the result
ToolTurnMutSummary(callId, result) ==
    Turn("tool", Str(IF result.success THEN "succeeded" ELSE "failed"), <<>>, callId)

\* the turn handleFunctionResult pushes
ToolTurn(callId, result) == Turn("tool", Str(JSONStringify(result)), <<>>, callId)
\* what push(undefined) leaves in the array
UndefinedEntry == Turn("undefined", Undefined, <<>>, Undefined)

\* A reply to one fetch: "reject", fetch rejects; "http", a status that is not
\* 2xx; "notJSON", a 2xx body that response.json() cannot parse; "noChoices",
\* JSON without choices; "noMessage", choices[0] without message; "ok".
Reply(kind, status, message) == [kind |-> kind, status |-> status, message |-> message]

ToolCallMessages ==
    { AssistantTurn(Null, <<Call(Str("call_1"), "getAccountBalance", RawRoth)>>),
      AssistantTurn(Null, <<Call(Undefined, "getAccountBalance", RawRoth)>>),
      AssistantTurn(Null, <<Call(Str(""), "getAccountBalance", RawSavings)>>),
      AssistantTurn(Null, <<Call(Str("call_1"), "getAccountBalance", RawEmptyObject)>>),
      AssistantTurn(Null, <<Call(Str("call_1"), "getAccountBalance", RawBad)>>),
      AssistantTurn(Null, <<Call(Str("call_1"), "transferEverything", RawEmptyObject)>>),
      AssistantTurn(Null, <<Call(Undefined, "transferEverything", RawEmptyObject)>>),
      AssistantTurn(Null, <<Call(Str("call_1"), "initiateFundTransfer", RawTransfer)>>),
      AssistantTurn(Null, <<Call(Str("call_1"), "initiateFundTransfer", RawTransferNoAccount)>>),
      AssistantTurn(Null, <<Call(Str("call_1"), "initiateFundTransfer", RawTransferNoSource)>>),
      AssistantTurn(Null, <<Call(Undefined, "initiateFundTransfer", RawTransferTextAmount)>>),
      AssistantTurn(Null, <<Call(Str("call_1"), "getAccountList", RawNull)>>),
      AssistantTurn(Null, <<Call(Str("call_1"), "getPortfolioPerformance", RawYTD)>>),
      AssistantTurn(Null, <<Call(Str("call_1"), "getAccountBalance", RawRoth),
                            Call(Str("call_2"), "initiateFundTransfer", RawTransfer)>>) }

TextMessages ==
    { AssistantTurn(Str("Your Roth IRA balance is $89500.75."), <<>>),
      AssistantTurn(Str(""), <<>>) }

FailedReplies ==
    { Reply("reject", 0, UndefinedEntry), Reply("http", 401, UndefinedEntry),
      Reply("http", 500, UndefinedEntry), Reply("notJSON", 200, UndefinedEntry),
      Reply("noChoices", 200, UndefinedEntry), Reply("noMessage", 200, UndefinedEntry) }

\* the replies to the fetch of generateResponse
Replies == FailedReplies \cup { Reply("ok", 200, m) : m \in ToolCallMessages \cup TextMessages }

\* the replies to the fetch of handleFunctionResult
FollowUpReplies ==
    FailedReplies
    \cup { Reply("ok", 200, m) : m \in TextMessages }
    \cup { Reply("ok", 200, AssistantTurn(Null, <<Call(Str("call_3"), "getAccountBalance", RawRoth)>>)),
           Reply("ok", 200, AssistantTurn(Null, <<Call(Str("call_3"), "getAccountBalance", RawBad)>>)) }

(***************************************************************************)
(* llmClient.js                                                            *)
(***************************************************************************)
\* the decision objects generateResponse and processOpenAIResponse return
Decision(type, message, functionName, arguments, toolCallId) ==
    [type |-> type, message |-> message, functionName |-> functionName,
     arguments |-> arguments, toolCallId |-> toolCallId]
TextDecision(content) == Decision("text", content, "", NullArgs, Undefined)
ErrorDecision(text) == Decision("error", Str(text), "", NullArgs, Undefined)
NoDecision == Decision("none", Undefined, "", NullArgs, Undefined)

GenericError == "Sorry, I encountered an error processing your request. Please try again."
ParameterError == "I had trouble understanding the parameters for that request."
ProcessingError == "I encountered an error processing your request. Please try again."
MockFallback == "Mock response: I can help with account balances, transfers, and portfolio performance. Try: \"What's my Roth IRA balance?\" or \"Transfer $1000 from Brokerage to Roth IRA\""

\* what a call that may throw yields: the history it left and its decision
Outcome(threw, history, decision) == [threw |-> threw, history |-> history, decision |-> decision]

\* a processOpenAIResponse that does not push the assistant message
ProcessOpenAIResponseMutNoPush(message, history) ==
    IF Len(message.tool_calls) > 0
    THEN LET toolCall == message.tool_calls[1]
             parsed == JSONParse(toolCall.arguments)
         IN IF ~parsed.ok
            THEN Outcome(FALSE, history, ErrorDecision(ParameterError))
            ELSE Outcome(FALSE, history,
                         Decision("function_call", Undefined, toolCall.name, parsed.value, toolCall.id))
    ELSE Outcome(FALSE, history, TextDecision(message.content))

\* a processOpenAIResponse that acts on the last declared call
ProcessOpenAIResponseMutLastCall(message, history) ==
    LET pushed == Append(history, message)
    IN IF Len(message.tool_calls) > 0
       THEN LET toolCall == message.tool_calls[Len(message.tool_calls)]
                parsed == JSONParse(toolCall.arguments)
            IN IF ~parsed.ok
               THEN Outcome(FALSE, pushed, ErrorDecision(ParameterError))
               ELSE Outcome(FALSE, pushed,
                            Decision("function_call", Undefined, toolCall.name, parsed.value, toolCall.id))
       ELSE Outcome(FALSE, pushed, TextDecision(message.content))

\* processOpenAIResponse, given choices[0].message
ProcessOpenAIResponse(message, history) ==
    LET pushed == Append(history, message)
    IN IF Len(message.tool_calls) > 0
       THEN LET toolCall == message.tool_calls[1]
                parsed == JSONParse(toolCall.arguments)
            IN IF ~parsed.ok
               THEN Outcome(FALSE, pushed, ErrorDecision(ParameterError))
               ELSE Outcome(FALSE, pushed,
                            Decision("function_call", Undefined, toolCall.name, parsed.value, toolCall.id))
       ELSE Outcome(FALSE, pushed, TextDecision(message.content))

\* the Error a failed provider call throws: its message is the text of the
\* exception, which for a status that is not 2xx names the status
Thrown(text) == [NoDecision EXCEPT !.message = Str(text)]
ErrorText(reply) ==
    CASE reply.kind = "reject" -> "Failed to fetch"
      [] reply.kind = "http" -> "OpenAI API error: " \o ToString(reply.status)
      [] reply.kind = "notJSON" -> "Unexpected token in JSON"
      [] reply.kind = "noChoices" -> "Cannot read properties of undefined (reading '0')"
      [] reply.kind = "noMessage" -> "Cannot read properties of undefined (reading 'tool_calls')"
      [] OTHER -> ""

\* callOpenAI from the settling of its fetch on
CallOpenAISettles(reply, history) ==
    CASE reply.kind \in {"reject", "http", "notJSON", "noChoices"} ->
             Outcome(TRUE, history, Thrown(ErrorText(reply)))
      [] reply.kind = "noMessage" ->
             Outcome(TRUE, Append(history, UndefinedEntry), Thrown(ErrorText(reply)))
      [] reply.kind = "ok" -> ProcessOpenAIResponse(reply.message, history)

\* a client that never takes the mock branch
MockModeMutOff(cfg) == FALSE

\* `if (this.config.development.enableMockMode)` of generateResponse
MockMode(cfg) == cfg.enableMockMode

\* mockResponse
MockResponse(userMessage) ==
    TextDecision(Str("Mock LLM response to: \"" \o userMessage \o "\". Enable a real LLM provider in config.js for actual AI responses."))

\* a catch that rolls the last turn of the history back
GenerateResponseCatchMutRollback(out) ==
    IF out.threw
    THEN Outcome(FALSE, SubSeq(out.history, 1, Len(out.history) - 1), ErrorDecision(GenericError))
    ELSE out

\* a catch that returns the text of the exception it caught
GenerateResponseCatchMutLeak(out) ==
    IF out.threw
    THEN Outcome(FALSE, out.history, ErrorDecision(out.decision.message.v))
    ELSE out

\* the try and catch of generateResponse around the provider call: a throw
\* becomes the error decision, and the history stays as the throw left it
GenerateResponseCatch(out) ==
    IF out.threw
    THEN Outcome(FALSE, out.history, ErrorDecision(GenericError))
    ELSE out

(***************************************************************************)
(* agentClient (webmcpProvider.js): formatFunctionResult                   *)
(***************************************************************************)
\* formatToolsForOpenAI: Array.from(tools.values()).map(...), one function
\* declaration per registered tool, in the order of the Map
FormatToolsForOpenAI(available) ==
    [i \in 1..Len(available) |->
        [type |-> "function",
         function |-> [name |-> available[i].name,
                       description |-> available[i].description,
                       parameters |-> available[i].inputSchema]]]

\* requestBody.tools of callOpenAI: tools.length > 0 ? tools : undefined
RequestTools(available) ==
    IF Len(available) > 0
    THEN [t |-> "array", v |-> FormatToolsForOpenAI(available)]
    ELSE Undefined

\* a request body that carries the system message and the latest turn only
RequestMessagesMutLatestOnly(history, available) ==
    <<Turn("system",
           Str("You are a helpful financial assistant for Fidelity Investments. Available tools: "
               \o Join([i \in 1..Len(available) |-> available[i].name], ", ")),
           <<>>, Undefined)>> \o SubSeq(history, Len(history), Len(history))

\* requestBody.messages of callOpenAI: the system message, whose text names
\* the available tools, then the whole conversationHistory
RequestMessages(history, available) ==
    <<Turn("system",
           Str("You are a helpful financial assistant for Fidelity Investments. Available tools: "
               \o Join([i \in 1..Len(available) |-> available[i].name], ", ")),
           <<>>, Undefined)>> \o history

\* result.message, undefined when the result has none
MessageOf(result) == IF "message" \in DOMAIN result THEN Str(result.message) ELSE Undefined

FormatFunctionResult(functionName, result) ==
    CASE functionName = "getAccountBalance" /\ result.success ->
            Str("The balance for " \o result.accountName \o " is $" \o ToFixed2(result.balance) \o ".")
      [] functionName = "getAccountList" /\ result.success ->
            Str("Here are your accounts: "
                \o Join([i \in 1..Len(result.accounts) |-> result.accounts[i].name], ", ") \o ".")
      [] functionName \in {"initiateFundTransfer", "getPortfolioPerformance"} -> MessageOf(result)
      [] OTHER -> IF result.success THEN MessageOf(result)
                  ELSE Str("Error: " \o MessageOf(result).v)


(***************************************************************************)
(* The state.                                                              *)
(***************************************************************************)
VARIABLES
    config,               \* window.Config: provider, apiKey, enableMockMode
    tools,                \* window.agent.tools, in insertion order
    conversationHistory,  \* LLMClient.conversationHistory
    isProcessing,         \* AgentClient.isProcessing
    sendDisabled,         \* sendButton.disabled
    chatHistory,          \* the lines of #ai-chat-history
    mockAccountData,      \* the accounts of fidelityApp.js
    transferForm,         \* the transfer form and the display of its module
    inflight,             \* the handleSend calls suspended at an await
    submissions,          \* handleSend calls that passed both guards
    requestsSent,         \* fetches issued to the provider
    executorCalls,        \* tool.execute calls made by invokeTool
    last,                 \* the handleSend call that returned last
    pushed,               \* turns pushed to conversationHistory so far
    lastEvent,            \* the task that ran last
    agentCall,            \* the last call made on window.agent, and the last batch registered
    resets                \* calls of LLMClient.reset so far

vars == <<config, tools, conversationHistory, isProcessing, sendDisabled, chatHistory,
          mockAccountData, transferForm, inflight, submissions, requestsSent,
          executorCalls, last, pushed, lastEvent, agentCall, resets>>

\* the state fidelityApp.js owns, as the executors see it
AppState == [accounts |-> mockAccountData, form |-> transferForm, chat |-> chatHistory]

\* The locals of one suspended handleSend call.  pc is the await it is
\* suspended at: "awaitModel" (the fetch of generateResponse), "awaitTool"
\* (invokeTool), "awaitFollowUp" (the fetch of handleFunctionResult).
\* before is the history when the call was accepted; requests, followUps,
\* invoked, executed and threw record what the call has done so far,
\* firstKind how its first provider call ended and firstStatus the HTTP status
\* it got, finalType and surfaced
\* the kind of response handleSend received and the message it showed,
\* sent the messages and sentTools the tools of the last request the call
\* issued, abandoned that
\* reset() was called while the call was suspended.
Activation(prompt, before) ==
    [pc |-> "awaitModel", prompt |-> prompt, before |-> before, llmResponse |-> NoDecision,
     functionResult |-> NoResult, escaped |-> FALSE, invoked |-> FALSE, executed |-> FALSE,
     threw |-> FALSE, requests |-> 0, followUps |-> 0, firstKind |-> "none",
     firstStatus |-> 0, finalType |-> "none", surfaced |-> Undefined, sent |-> <<>>,
     sentTools |-> Undefined, abandoned |-> FALSE]

NoActivation == [Activation("", <<>>) EXCEPT !.pc = "none"]

\* the user's input box when handleSend reads it, a trim that leaves an input
\* of blanks as it is, and String.prototype.trim
Prompts == {"", "   ", " What's my Roth IRA balance? "}
TrimMutKeepsBlanks(s) ==
    CASE s = " What's my Roth IRA balance? " -> "What's my Roth IRA balance?"
      [] OTHER -> s

Trim(s) ==
    CASE s = "   " -> ""
      [] s = " What's my Roth IRA balance? " -> "What's my Roth IRA balance?"
      [] OTHER -> s

\* a call of provideContext or invokeTool as its caller saw it: batch is the
\* context.tools of the last provideContext; reported, the call threw to its
\* caller; toolName, executed and result are those of an invokeTool call
AgentCall(op, batch, toolName, reported, executed, result) ==
    [op |-> op, batch |-> batch, toolName |-> toolName, reported |-> reported,
     executed |-> executed, result |-> result]

Init ==
    /\ config \in Configs
    /\ tools = FidelityTools
    /\ conversationHistory = <<>>
    /\ isProcessing = FALSE
    /\ sendDisabled = FALSE
    /\ chatHistory = <<>>
    /\ mockAccountData = InitialAccounts
    /\ transferForm = InitialForm
    /\ inflight = <<>>
    /\ submissions = 0
    /\ requestsSent = 0
    /\ executorCalls = 0
    /\ last = NoActivation
    /\ pushed = 0
    /\ lastEvent = "load"
    /\ resets = 0
    /\ agentCall = AgentCall("provideContext", FidelityTools, "", FALSE, FALSE, NoResult)

Remove(seq, i) == SubSeq(seq, 1, i - 1) \o SubSeq(seq, i + 1, Len(seq))

\* addMessage(response.message, 'agent') under `if (response.message)`
Surface(chat, message) ==
    IF Truthy(message) THEN Append(chat, Msg("agent", message.v)) ELSE chat

\* a handleSend without its finally block: the reply is shown and the flag
\* and the send button stay as they are
ReturnMutNoFinally(a, chat, message, finalType) ==
    /\ chatHistory' = Surface(chat, message)
    /\ isProcessing' = isProcessing
    /\ sendDisabled' = sendDisabled
    /\ last' = [a EXCEPT !.pc = "done", !.surfaced = message, !.finalType = finalType]

\* The end of handleSend once processUserPromptWithLLM has returned
\* `message`: the reply is shown, and finally clears isProcessing.
Return(a, chat, message, finalType) ==
    /\ chatHistory' = Surface(chat, message)
    /\ isProcessing' = FALSE
    /\ sendDisabled' = FALSE
    /\ last' = [a EXCEPT !.pc = "done", !.surfaced = message, !.finalType = finalType]

\* the catch of processUserPromptWithLLM
ProcessCatch == IF config.enableMockMode THEN Str(MockFallback) ELSE Str(ProcessingError)

\* a handleSend without its first guard
RejectedMutNoGuard == FALSE

\* the first guard of handleSend: `if (this.isProcessing) return`
Rejected == isProcessing

(***************************************************************************)
(* handleSend, from the click or the Enter key up to its first await of a  *)
(* fetch, or to its end when no fetch is made.                             *)
(***************************************************************************)
HandleSendIgnored(input) ==
    /\ Rejected
    /\ lastEvent' = "sendIgnored"
    /\ UNCHANGED <<resets, agentCall, config, tools, conversationHistory, isProcessing, sendDisabled, chatHistory,
                   mockAccountData, transferForm, inflight, submissions, requestsSent,
                   executorCalls, last, pushed>>

HandleSendEmpty(input) ==
    /\ ~Rejected
    /\ Trim(input) = ""
    /\ lastEvent' = "sendEmpty"
    /\ UNCHANGED <<resets, agentCall, config, tools, conversationHistory, isProcessing, sendDisabled, chatHistory,
                   mockAccountData, transferForm, inflight, submissions, requestsSent,
                   executorCalls, last, pushed>>

HandleSendAccepted(input) ==
    LET prompt == Trim(input)
        shown == Append(chatHistory, Msg("user", prompt))
        a == Activation(prompt, conversationHistory)
        key == GetApiKey(config)
    IN
    /\ ~Rejected
    /\ prompt # ""
    /\ submissions < MaxSubmissions
    /\ pushed + 4 <= MaxTurns
    /\ submissions' = submissions + 1
    /\ lastEvent' = "send"
    /\ UNCHANGED <<resets, agentCall, config, tools, mockAccountData, transferForm, executorCalls>>
    /\ IF MockMode(config)
       THEN \* generateResponse returns mockResponse(userMessage)
            /\ Return([a EXCEPT !.firstKind = "mock"], shown, MockResponse(prompt).message, "text")
            /\ UNCHANGED <<conversationHistory, inflight, requestsSent>>
       ELSE IF key.threw
       THEN \* getApiKey throws before the push; the catch gives the error decision
            /\ Return([a EXCEPT !.firstKind = "noKey"], shown, Str(GenericError), "error")
            /\ UNCHANGED <<conversationHistory, inflight, requestsSent>>
       ELSE IF config.provider # "openai"
       THEN \* the user turn is pushed, then callAnthropic throws
            /\ conversationHistory' = Append(conversationHistory, UserTurn(prompt))
            /\ Return([a EXCEPT !.firstKind = "provider"], shown, Str(GenericError), "error")
            /\ UNCHANGED <<inflight, requestsSent>>
       ELSE \* the user turn is pushed and callOpenAI awaits its fetch
            /\ conversationHistory' = Append(conversationHistory, UserTurn(prompt))
            /\ inflight' = Append(inflight,
                    [a EXCEPT !.requests = 1,
                              !.sent = RequestMessages(Append(conversationHistory, UserTurn(prompt)), tools),
                              !.sentTools = RequestTools(tools)])
            /\ requestsSent' = requestsSent + 1
            /\ isProcessing' = TRUE
            /\ sendDisabled' = TRUE
            /\ chatHistory' = shown
            /\ UNCHANGED last
    /\ pushed' = pushed + Len(conversationHistory') - Len(conversationHistory)

HandleSend(input) ==
    \/ HandleSendIgnored(input)
    \/ HandleSendEmpty(input)
    \/ HandleSendAccepted(input)

(***************************************************************************)
(* The fetch of generateResponse settles: the rest of callOpenAI,          *)
(* processOpenAIResponse, the catch of generateResponse, the switch of     *)
(* processUserPromptWithLLM and, for a function_call, invokeTool up to its *)
(* await of the executor (the executors run to their end when called).     *)
(***************************************************************************)
\* a resumption in which invokeTool unregisters a tool whose executor threw
ModelReplyMutUnregisters(i, reply) ==
    LET a == inflight[i]
        out == GenerateResponseCatch(CallOpenAISettles(reply, conversationHistory))
        d == out.decision
        inv == InvokeTool(tools, d.functionName, d.arguments, AppState)
    IN
    /\ a.pc = "awaitModel"
    /\ lastEvent' = "modelReply"
    /\ conversationHistory' = out.history
    /\ tools' = IF d.type = "function_call" /\ inv.threw
                THEN SelectSeq(tools, LAMBDA t : t.name # d.functionName)
                ELSE tools
    /\ UNCHANGED <<resets, agentCall, config, submissions, requestsSent>>
    /\ IF d.type = "function_call"
       THEN /\ inflight' = [inflight EXCEPT ![i] =
                               [a EXCEPT !.pc = "awaitTool", !.llmResponse = d, !.invoked = TRUE,
                                         !.firstKind = reply.kind, !.firstStatus = reply.status,
                                         !.executed = inv.executed, !.threw = inv.threw,
                                         !.escaped = inv.escaped, !.functionResult = inv.result]]
            /\ mockAccountData' = inv.app.accounts
            /\ transferForm' = inv.app.form
            /\ chatHistory' = inv.app.chat
            /\ executorCalls' = executorCalls + (IF inv.executed THEN 1 ELSE 0)
            /\ UNCHANGED <<isProcessing, sendDisabled, last>>
       ELSE /\ Return([a EXCEPT !.llmResponse = d, !.firstKind = reply.kind, !.firstStatus = reply.status],
                    chatHistory, d.message, d.type)
            /\ inflight' = Remove(inflight, i)
            /\ UNCHANGED <<mockAccountData, transferForm, executorCalls>>
    /\ pushed' = pushed + Len(conversationHistory') - Len(conversationHistory)

ModelReply(i, reply) ==
    LET a == inflight[i]
        out == GenerateResponseCatch(CallOpenAISettles(reply, conversationHistory))
        d == out.decision
        inv == InvokeTool(tools, d.functionName, d.arguments, AppState)
    IN
    /\ a.pc = "awaitModel"
    /\ lastEvent' = "modelReply"
    /\ conversationHistory' = out.history
    /\ UNCHANGED <<resets, agentCall, config, tools, submissions, requestsSent>>
    /\ IF d.type = "function_call"
       THEN /\ inflight' = [inflight EXCEPT ![i] =
                               [a EXCEPT !.pc = "awaitTool", !.llmResponse = d, !.invoked = TRUE,
                                         !.firstKind = reply.kind, !.firstStatus = reply.status,
                                         !.executed = inv.executed, !.threw = inv.threw,
                                         !.escaped = inv.escaped, !.functionResult = inv.result]]
            /\ mockAccountData' = inv.app.accounts
            /\ transferForm' = inv.app.form
            /\ chatHistory' = inv.app.chat
            /\ executorCalls' = executorCalls + (IF inv.executed THEN 1 ELSE 0)
            /\ UNCHANGED <<isProcessing, sendDisabled, last>>
       ELSE /\ Return([a EXCEPT !.llmResponse = d, !.firstKind = reply.kind, !.firstStatus = reply.status],
                    chatHistory, d.message, d.type)
            /\ inflight' = Remove(inflight, i)
            /\ UNCHANGED <<mockAccountData, transferForm, executorCalls>>
    /\ pushed' = pushed + Len(conversationHistory') - Len(conversationHistory)

\* a test for the id being defined rather than truthy
HasToolCallIdMutDefined(d) == d.toolCallId.t # "undefined"

\* `if (llmResponse.toolCallId)`
HasToolCallId(d) == Truthy(d.toolCallId)

(***************************************************************************)
(* invokeTool settles: the function_call case of processUserPromptWithLLM  *)
(* from line 286 on, with handleFunctionResult up to its fetch.            *)
(***************************************************************************)
ToolSettles(i) ==
    LET a == inflight[i]
        d == a.llmResponse
        key == GetApiKey(config)
    IN
    /\ a.pc = "awaitTool"
    /\ lastEvent' = "toolSettles"
    /\ UNCHANGED <<resets, agentCall, config, tools, submissions, mockAccountData, transferForm, executorCalls>>
    /\ IF a.escaped
       THEN \* the await throws into the catch of processUserPromptWithLLM
            /\ Return(a, chatHistory, ProcessCatch, "caught")
            /\ inflight' = Remove(inflight, i)
            /\ UNCHANGED <<conversationHistory, requestsSent>>
       ELSE IF HasToolCallId(d)
       THEN \* handleFunctionResult pushes the tool turn, then calls callOpenAI
            /\ conversationHistory' = Append(conversationHistory, ToolTurn(d.toolCallId, a.functionResult))
            /\ IF key.threw
               THEN /\ Return(a, chatHistory, ProcessCatch, "caught")
                    /\ inflight' = Remove(inflight, i)
                    /\ UNCHANGED requestsSent
               ELSE /\ inflight' = [inflight EXCEPT ![i] =
                                       [a EXCEPT !.pc = "awaitFollowUp", !.requests = @ + 1,
                                                 !.followUps = @ + 1,
                                                 \* callOpenAI('', new Map(), apiKey)
                                                 !.sent = RequestMessages(conversationHistory', <<>>),
                                                 !.sentTools = RequestTools(<<>>)]]
                    /\ requestsSent' = requestsSent + 1
                    /\ UNCHANGED <<isProcessing, sendDisabled, chatHistory, last>>
       ELSE \* no call id: the result is formatted for the user
            /\ Return(a, chatHistory, FormatFunctionResult(d.functionName, a.functionResult), "formatted")
            /\ inflight' = Remove(inflight, i)
            /\ UNCHANGED <<conversationHistory, requestsSent>>
    /\ pushed' = pushed + Len(conversationHistory') - Len(conversationHistory)

\* a follow-up that is sent again when its fetch rejects or gets a status that
\* is not 2xx
FollowUpReplyMutRetry(i, reply) ==
    LET a == inflight[i]
        out == CallOpenAISettles(reply, conversationHistory)
    IN
    /\ a.pc = "awaitFollowUp"
    /\ lastEvent' = "followUpReply"
    /\ conversationHistory' = out.history
    /\ pushed' = pushed + Len(out.history) - Len(conversationHistory)
    /\ UNCHANGED <<resets, agentCall, config, tools, submissions, mockAccountData, transferForm,
                   executorCalls>>
    /\ IF reply.kind \in {"reject", "http"}
       THEN /\ requestsSent' = requestsSent + 1
            /\ inflight' = [inflight EXCEPT ![i].requests = @ + 1]
            /\ UNCHANGED <<isProcessing, sendDisabled, chatHistory, last>>
       ELSE /\ inflight' = Remove(inflight, i)
            /\ UNCHANGED requestsSent
            /\ IF out.threw
               THEN Return(a, chatHistory, ProcessCatch, "caught")
               ELSE Return(a, chatHistory, out.decision.message, out.decision.type)

(***************************************************************************)
(* The fetch of handleFunctionResult settles: the rest of callOpenAI and   *)
(* processOpenAIResponse; the decision is returned to handleSend as the    *)
(* response, and a throw lands in the catch of processUserPromptWithLLM.   *)
(***************************************************************************)
FollowUpReply(i, reply) ==
    LET a == inflight[i]
        out == CallOpenAISettles(reply, conversationHistory)
        d == out.decision
    IN
    /\ a.pc = "awaitFollowUp"
    /\ lastEvent' = "followUpReply"
    /\ conversationHistory' = out.history
    /\ inflight' = Remove(inflight, i)
    /\ UNCHANGED <<resets, agentCall, config, tools, submissions, requestsSent, mockAccountData, transferForm,
                   executorCalls>>
    /\ IF out.threw
       THEN Return(a, chatHistory, ProcessCatch, "caught")
       ELSE \* a function_call decision has no message property
            Return(a, chatHistory, d.message, d.type)
    /\ pushed' = pushed + Len(conversationHistory') - Len(conversationHistory)

(***************************************************************************)
(* fidelityApp.js: the listeners of the two buttons of the transfer form,  *)
(* which the user can click while the module is displayed.                 *)
(***************************************************************************)
SubmitTransferClick ==
    LET app == HideTransferModal(DisplayAgentMessage(AppState, "Transfer submitted successfully!"))
    IN
    /\ transferForm.visible
    /\ lastEvent' = "submitTransfer"
    /\ chatHistory' = app.chat
    /\ transferForm' = app.form
    /\ mockAccountData' = app.accounts
    /\ UNCHANGED <<resets, agentCall, config, tools, conversationHistory, isProcessing, sendDisabled, inflight,
                   submissions, requestsSent, executorCalls, last, pushed>>

CancelTransferClick ==
    LET app == HideTransferModal(DisplayAgentMessage(AppState, "Transfer canceled."))
    IN
    /\ transferForm.visible
    /\ lastEvent' = "cancelTransfer"
    /\ chatHistory' = app.chat
    /\ transferForm' = app.form
    /\ mockAccountData' = app.accounts
    /\ UNCHANGED <<resets, agentCall, config, tools, conversationHistory, isProcessing, sendDisabled, inflight,
                   submissions, requestsSent, executorCalls, last, pushed>>

(***************************************************************************)
(* LLMClient.reset.  No code of the repository calls it; SpecReset lets a  *)
(* caller of the class clear the history between any two tasks.            *)
(***************************************************************************)
Reset ==
    /\ resets < MaxResets
    /\ resets' = resets + 1
    /\ conversationHistory' = <<>>
    /\ inflight' = [i \in 1..Len(inflight) |-> [inflight[i] EXCEPT !.abandoned = TRUE]]
    /\ lastEvent' = "reset"
    /\ UNCHANGED <<agentCall, config, tools, isProcessing, sendDisabled, chatHistory, mockAccountData,
                   transferForm, submissions, requestsSent, executorCalls, last, pushed>>

(***************************************************************************)
(* main.js: window.agent called by the page or by an agent.  provideContext *)
(* returns nothing and has no throw of its own; invokeTool runs to the end  *)
(* of the executor it calls.                                                *)
(***************************************************************************)
ProvideContext(batch) ==
    /\ tools' = ProvideContextTools(tools, batch)
    /\ agentCall' = AgentCall("provideContext", batch, "", FALSE, FALSE, NoResult)
    /\ lastEvent' = "provideContext"
    /\ UNCHANGED <<resets, config, conversationHistory, isProcessing, sendDisabled, chatHistory,
                   mockAccountData, transferForm, inflight, submissions, requestsSent,
                   executorCalls, last, pushed>>

\* the arguments of a direct invokeTool call
DirectArgs == {JSONParse(RawRoth).value, JSONParse(RawTransfer).value}
ToolNames == {t.name : t \in ToolPool} \cup {"transferEverything"}

InvokeToolCall(toolName, parameters) ==
    LET inv == InvokeTool(tools, toolName, parameters, AppState)
    IN
    /\ executorCalls < MaxDirectCalls
    /\ agentCall' = AgentCall("invokeTool", agentCall.batch, toolName, inv.escaped,
                              inv.executed, inv.result)
    /\ lastEvent' = "invokeTool"
    /\ mockAccountData' = inv.app.accounts
    /\ transferForm' = inv.app.form
    /\ chatHistory' = inv.app.chat
    /\ executorCalls' = executorCalls + (IF inv.executed THEN 1 ELSE 0)
    /\ UNCHANGED <<resets, config, tools, conversationHistory, isProcessing, sendDisabled,
                   inflight, submissions, requestsSent, last, pushed>>

Next ==
    \/ \E input \in Prompts : HandleSend(input)
    \/ \E i \in 1..Len(inflight), reply \in Replies : ModelReply(i, reply)
    \/ \E i \in 1..Len(inflight) : ToolSettles(i)
    \/ \E i \in 1..Len(inflight), reply \in FollowUpReplies : FollowUpReply(i, reply)
    \/ SubmitTransferClick
    \/ CancelTransferClick

Spec == Init /\ [][Next]_vars

\* Every fetch settles and every awaited executor returns, and the event
\* loop runs a continuation that is ready: a suspended handleSend is resumed.
Fairness ==
    /\ WF_vars(\E i \in 1..Len(inflight), reply \in Replies : ModelReply(i, reply))
    /\ WF_vars(\E i \in 1..Len(inflight) : ToolSettles(i))
    /\ WF_vars(\E i \in 1..Len(inflight), reply \in FollowUpReplies : FollowUpReply(i, reply))

SpecLive == Spec /\ Fairness

NextReset ==
    \/ Next
    \/ Reset

SpecReset == Init /\ [][NextReset]_vars

\* the registry on its own: registrations and direct invocations
NextRegistry ==
    \/ \E batch \in Batches : ProvideContext(batch)
    \/ \E toolName \in ToolNames, parameters \in DirectArgs : InvokeToolCall(toolName, parameters)

SpecRegistry == Init /\ [][NextRegistry]_vars

(***************************************************************************)
(* What the properties below speak about.                                  *)
(***************************************************************************)
\* every handleSend call that is suspended, and the one that returned last
Activations == {inflight[i] : i \in 1..Len(inflight)} \cup {last}

IsPrefix(s, t) == Len(s) <= Len(t) /\ SubSeq(t, 1, Len(s)) = s

\* a decision that carries a call id: a non-empty string
HasCallId(d) == d.toolCallId.t = "string" /\ d.toolCallId.v # ""

UnknownAction == [success |-> FALSE, message |-> "Unknown action."]
InternalError == [success |-> FALSE, message |-> "An internal error occurred."]

\* runs of the submit handler, by the line it leaves in the chat
CommitCount(chat) ==
    Cardinality({i \in 1..Len(chat) : chat[i] = Msg("agent", "Transfer submitted successfully!")})

(***************************************************************************)
(* Properties.                                                             *)
(***************************************************************************)

\* C1: at most one exchange is in flight.  A handleSend call made while an
\* accepted submission has not returned is rejected: it pushes no turn, sends
\* no request, invokes no executor, suspends no second call and shows nothing;
\* and the turns pushed since a suspended call was accepted are its own alone
\* (its user turn first, then at most an assistant and a tool turn).
C1_SingleExchangeInFlight ==
    /\ [](/\ Len(inflight) <= 1
          /\ (inflight # <<>>) = isProcessing
          /\ \A i \in 1..Len(inflight) :
                LET a == inflight[i]
                    n == Len(conversationHistory) - Len(a.before)
                IN /\ IsPrefix(a.before, conversationHistory)
                   /\ conversationHistory[Len(a.before) + 1] = UserTurn(a.prompt)
                   /\ n = (CASE a.pc = "awaitModel" -> 1
                             [] a.pc = "awaitTool" -> 2
                             [] a.pc = "awaitFollowUp" -> 3))
    /\ [][(inflight # <<>> /\ \E input \in Prompts : HandleSend(input))
            => UNCHANGED <<conversationHistory, requestsSent, executorCalls, inflight,
                           chatHistory, submissions>>]_vars

\* a submission was just rejected while the first one waits for its executor
C1_Witness ==
    /\ lastEvent = "sendIgnored"
    /\ Len(inflight) = 1
    /\ inflight[1].pc = "awaitTool"
    /\ inflight[1].executed

C3_UnknownToolFailsSoftly ==
    /\ [](\A a \in Activations :
          (a.invoked /\ ~ToolsHas(tools, a.llmResponse.functionName))
          => /\ ~a.executed
             /\ ~a.escaped
             /\ a.functionResult = UnknownAction
             /\ a.pc \in {"awaitFollowUp", "done"} /\ HasCallId(a.llmResponse)
                   => /\ Len(conversationHistory) >= Len(a.before) + 3
                      /\ conversationHistory[Len(a.before) + 3]
                            = ToolTurn(a.llmResponse.toolCallId, UnknownAction)
             /\ a.pc = "done" /\ ~HasCallId(a.llmResponse)
                   => a.surfaced = Str("Error: Unknown action.")
             /\ a.pc = "done" => a.finalType # "caught" \/ a.followUps = 1)
    /\ [][\A i \in 1..Len(inflight) :
             (/\ inflight[i].pc = "awaitModel"
              /\ Len(inflight') >= i
              /\ inflight'[i].pc = "awaitTool"
              /\ ~ToolsHas(tools, inflight'[i].llmResponse.functionName))
             => UNCHANGED <<executorCalls, mockAccountData, transferForm, chatHistory>>]_vars

C3_Witness ==
    /\ last.pc = "done"
    /\ last.invoked
    /\ last.llmResponse.functionName = "transferEverything"
    /\ last.followUps = 1
    /\ last.finalType = "text"
    /\ executorCalls = 0

C5_CommitOnlyByUserClick ==
    [][/\ CommitCount(chatHistory') # CommitCount(chatHistory)
          => SubmitTransferClick /\ lastEvent' = "submitTransfer"
       /\ lastEvent' \in {"modelReply", "toolSettles", "followUpReply", "send"}
          => CommitCount(chatHistory') = CommitCount(chatHistory)]_vars

\* the user submitted a transfer that initiateFundTransfer had staged
C5_Witness ==
    /\ lastEvent = "submitTransfer"
    /\ CommitCount(chatHistory) = 1
    /\ transferForm = [fromAccount |-> "Brokerage Account", toAccount |-> "Roth IRA",
                       amount |-> "1000.00", visible |-> FALSE]
    /\ \E a \in Activations :
          a.llmResponse.functionName = "initiateFundTransfer" /\ a.functionResult.success

\* C6: every initiateFundTransfer call with the arguments of RawTransfer
\* succeeds on its own, whatever was staged before, and no account of
\* mockAccountData ever changes, staged or not.
C6_StagingLeavesBalances ==
    /\ mockAccountData = InitialAccounts
    /\ \A a \in Activations :
          (a.invoked /\ a.llmResponse.functionName = "initiateFundTransfer"
                     /\ a.llmResponse.arguments = JSONParse(RawTransfer).value)
          => /\ a.executed
             /\ a.functionResult.success

\* the same transfer staged twice: by the exchange that returned last and by
\* the one now waiting for its executor
C6_Witness ==
    /\ last.pc = "done"
    /\ last.llmResponse.functionName = "initiateFundTransfer"
    /\ last.llmResponse.arguments = JSONParse(RawTransfer).value
    /\ last.functionResult.success
    /\ Len(inflight) = 1
    /\ inflight[1].pc = "awaitTool"
    /\ inflight[1].llmResponse.functionName = "initiateFundTransfer"
    /\ inflight[1].llmResponse.arguments = last.llmResponse.arguments
    /\ inflight[1].functionResult.success
    /\ transferForm.visible
    /\ mockAccountData = InitialAccounts

\* C7 as stated: when the model answers the first request and the follow-up
\* with a tool call, the exchange ends with an error shown to the user.
C7_ToolCallLoopEndsInError ==
    (/\ last.pc = "done"
     /\ last.llmResponse.type = "function_call"
     /\ last.followUps = 1
     /\ last.finalType = "function_call")
    => Truthy(last.surfaced)

\* C8: when the first request of a submission is rejected by fetch or gets a
\* status that is not 2xx, handleSend returns through the error decision (the
\* state is the one its task leaves, with nothing suspended): the
\* history is the one before the submission plus its user turn, and the chat
\* ends with the fixed text GenericError.
C8_TransportFailureKeepsUserTurn ==
    (/\ last.pc = "done"
     /\ last.firstKind \in {"reject", "http"}
     /\ lastEvent = "modelReply"
     /\ inflight = <<>>)
    => /\ last.finalType = "error"
       /\ last.surfaced = Str("Sorry, I encountered an error processing your request. Please try again.")
       /\ conversationHistory = Append(last.before, UserTurn(last.prompt))
       /\ chatHistory # <<>>
       /\ chatHistory[Len(chatHistory)] = Msg("agent", last.surfaced.v)
       /\ last.requests = 1
       /\ ~last.invoked
       /\ ~isProcessing

\* the second submission failed with a 5xx/4xx status after a first exchange
C8_Witness ==
    /\ last.pc = "done"
    /\ last.firstKind = "http"
    /\ lastEvent = "modelReply"
    /\ inflight = <<>>
    /\ Len(last.before) >= 4

\* C9: every tool turn of the history is preceded by an assistant turn one of
\* whose tool_calls has the id the tool turn answers.
C9_ToolTurnHasRequest ==
    \A i \in 1..Len(conversationHistory) :
        conversationHistory[i].role = "tool"
        => \E j \in 1..(i - 1) :
              /\ conversationHistory[j].role = "assistant"
              /\ \E k \in 1..Len(conversationHistory[j].tool_calls) :
                    conversationHistory[j].tool_calls[k].id = conversationHistory[i].tool_call_id

\* two tool turns in the history
C9_Witness ==
    Cardinality({i \in 1..Len(conversationHistory) : conversationHistory[i].role = "tool"}) = 2

\* C10: every task other than reset leaves the history it found as a prefix
\* of the history it leaves.
C10_HistoryAppendOnly ==
    [][lastEvent' # "reset" => IsPrefix(conversationHistory, conversationHistory')]_vars

\* an exchange that ended in the catch of processUserPromptWithLLM, after the
\* follow-up request failed, with the turns of an earlier exchange and its own
\* three still in the history
C10_Witness ==
    /\ last.pc = "done"
    /\ last.finalType = "caught"
    /\ lastEvent = "followUpReply"
    /\ Len(last.before) >= 2
    /\ conversationHistory = last.before \o SubSeq(conversationHistory, Len(last.before) + 1, Len(last.before) + 3)
    /\ Len(conversationHistory) = Len(last.before) + 3

\* the names of a batch are pairwise different
UniqueNames(batch) ==
    \A i, j \in 1..Len(batch) : batch[i].name = batch[j].name => i = j

NamesOf(batch) == {batch[i].name : i \in 1..Len(batch)}

\* C11: after provideContext with a batch of uniquely named tools the
\* registry is that batch: each of its names resolves to the tool registered
\* under it, no other name resolves, and invokeTool on a name outside the
\* batch (registered earlier or never) calls no executor and returns the
\* "Unknown action." failure.
C11_RegistrationReplacesToolSet ==
    /\ UniqueNames(agentCall.batch)
          => /\ \A k \in 1..Len(agentCall.batch) :
                   /\ ToolsHas(tools, agentCall.batch[k].name)
                   /\ ToolsGet(tools, agentCall.batch[k].name) = agentCall.batch[k]
             /\ \A n \in ToolNames \ NamesOf(agentCall.batch) :
                   /\ ~ToolsHas(tools, n)
                   /\ \A parameters \in DirectArgs :
                         InvokeTool(tools, n, parameters, AppState)
                            = Settled(FALSE, FALSE, UnknownAction, AppState)
             /\ Len(tools) = Len(agentCall.batch)
    /\ (/\ agentCall.op = "invokeTool"
        /\ UniqueNames(agentCall.batch)
        /\ agentCall.toolName \notin NamesOf(agentCall.batch))
          => /\ ~agentCall.executed
             /\ agentCall.result = UnknownAction

\* initiateFundTransfer, registered at load, was invoked after a batch
\* without it replaced the set
C11_Witness ==
    /\ agentCall.op = "invokeTool"
    /\ agentCall.toolName = "initiateFundTransfer"
    /\ agentCall.batch = <<FidelityTools[1], FidelityTools[2]>>
    /\ agentCall.result = UnknownAction
    /\ executorCalls = 1

\* C12 as stated: a provideContext whose batch holds two tools of one name
\* reports an error to its caller.
C12_DuplicateNamesReported ==
    (agentCall.op = "provideContext" /\ ~UniqueNames(agentCall.batch)) => agentCall.reported

\* the reply's message that an exchange pushed as its k-th turn has a first
\* tool call whose arguments are RawBad, the string of the model that is not
\* JSON (it ends after the colon)
BadArgumentsAt(a, k) ==
    /\ Len(conversationHistory) >= Len(a.before) + k
    /\ LET m == conversationHistory[Len(a.before) + k]
       IN /\ m.role = "assistant"
          /\ Len(m.tool_calls) > 0
          /\ m.tool_calls[1].arguments = RawBad

\* C13: when the arguments of the first tool call of a reply are not valid
\* JSON the decision is the error decision with the fixed parameter message,
\* never a function_call; for the first reply of an exchange no executor is
\* invoked and no further request is made, and in both the first and the
\* follow-up reply the parameter message is what the user is shown.
C13_BadArgumentsGiveError ==
    \A a \in Activations :
        /\ (a.pc = "done" /\ a.firstKind = "ok" /\ BadArgumentsAt(a, 2))
              => /\ a.llmResponse = ErrorDecision(ParameterError)
                 /\ ~a.invoked
                 /\ ~a.executed
                 /\ a.requests = 1
                 /\ a.finalType = "error"
                 /\ a.surfaced = Str(ParameterError)
        /\ (a.pc # "done" /\ a.pc # "none") => ~BadArgumentsAt(a, 2)
        /\ (a.pc = "done" /\ a.followUps = 1 /\ BadArgumentsAt(a, 4))
              => /\ a.finalType = "error"
                 /\ a.surfaced = Str(ParameterError)

\* an exchange whose first reply carried unparsable arguments has ended, with
\* the parameter message as the last line of the chat and no executor run
C13_Witness ==
    /\ last.pc = "done"
    /\ last.firstKind = "ok"
    /\ BadArgumentsAt(last, 2)
    /\ inflight = <<>>
    /\ lastEvent = "modelReply"
    /\ chatHistory[Len(chatHistory)] = Msg("agent", ParameterError)
    /\ executorCalls = 0

\* parsed arguments that satisfy a tool's inputSchema: an object that has
\* every required property
Validates(tool, args) ==
    /\ args.t = "object"
    /\ \A k \in 1..Len(tool.inputSchema.required) : args[tool.inputSchema.required[k]].t # "undefined"

\* C14 as stated: an executor is invoked only with parsed arguments that
\* satisfy the inputSchema of its tool.
C14_ExecutorArgumentsValidated ==
    \A a \in Activations :
        a.executed => Validates(ToolsGet(tools, a.llmResponse.functionName), a.llmResponse.arguments)

\* C15: for every tool call with a call id, once invokeTool has settled the
\* follow-up request is issued and its messages are the system message, the
\* history before the submission, the user turn, the assistant turn that
\* requested the call and, last, a tool turn with that call's id whose content
\* is JSON.stringify of what invokeTool returned, success or failure.
C15_ToolResultFedBackVerbatim ==
    \A a \in Activations :
        (a.invoked /\ HasCallId(a.llmResponse) /\ a.pc \in {"awaitFollowUp", "done"})
        => LET n == Len(a.sent)
               request == a.sent[n - 1]
               answer == a.sent[n]
           IN /\ a.followUps = 1
              /\ n = Len(a.before) + 4
              /\ SubSeq(a.sent, 2, n - 3) = a.before
              /\ a.sent[1].role = "system"
              /\ a.sent[n - 2] = UserTurn(a.prompt)
              /\ request.role = "assistant"
              /\ request.tool_calls[1].id = a.llmResponse.toolCallId
              /\ request.tool_calls[1].name = a.llmResponse.functionName
              /\ answer = Turn("tool", Str(JSONStringify(a.functionResult)), <<>>,
                               a.llmResponse.toolCallId)

\* a follow-up request is waiting for its reply; the tool it answers returned
\* the failure of an account that was not found
C15_Witness ==
    /\ Len(inflight) = 1
    /\ inflight[1].pc = "awaitFollowUp"
    /\ inflight[1].executed
    /\ ~inflight[1].functionResult.success
    /\ inflight[1].functionResult # InternalError
    /\ Len(inflight[1].before) >= 2
    /\ inflight[1].sent[Len(inflight[1].sent)].role = "tool"

\* no account name contains the identifier, compared in lower case
MatchesNoAccount(identifier) ==
    \A k \in 1..Len(InitialAccounts) :
        ~Includes(ToLowerCase(InitialAccounts[k].name), ToLowerCase(identifier))

\* an initiateFundTransfer call whose source or destination names no account
TransferToNowhere(d) ==
    /\ d.type = "function_call"
    /\ d.functionName = "initiateFundTransfer"
    /\ d.arguments.t = "object"
    /\ d.arguments.fromAccount.t = "string"
    /\ d.arguments.toAccount.t = "string"
    /\ MatchesNoAccount(d.arguments.fromAccount.v) \/ MatchesNoAccount(d.arguments.toAccount.v)

\* the result the executor gives for such a call
AccountsNotFound(d) ==
    [success |-> FALSE,
     message |-> "Account(s) not found. From: " \o d.arguments.fromAccount.v
                 \o (IF MatchesNoAccount(d.arguments.fromAccount.v) THEN " [x]" ELSE " [v]")
                 \o ", To: " \o d.arguments.toAccount.v
                 \o (IF MatchesNoAccount(d.arguments.toAccount.v) THEN " [x]" ELSE " [v]")]

FirstReplyMessage(a) == conversationHistory[Len(a.before) + 2]

\* C17: the decision for a reply that declares tool calls is the
\* function_call for the first declared call (its name, id and parsed
\* arguments; the parameter error of C13 when its arguments do not parse),
\* whatever follows it; the task that invokes it calls at most that one
\* executor, and no tool turn ever answers a later call.  A reply that
\* declares no call gives the text decision with the reply's content.
C17_FirstCallOnly ==
    /\ [](\A a \in Activations :
            a.firstKind = "ok"
            => LET m == FirstReplyMessage(a)
               IN /\ m.role = "assistant"
                  /\ (Len(m.tool_calls) > 0 /\ m.tool_calls[1].arguments # RawBad)
                        => /\ a.llmResponse.type = "function_call"
                           /\ a.invoked
                           /\ a.llmResponse.functionName = m.tool_calls[1].name
                           /\ a.llmResponse.toolCallId = m.tool_calls[1].id
                           /\ a.llmResponse.arguments = JSONParse(m.tool_calls[1].arguments).value
                  /\ (Len(m.tool_calls) > 0 /\ m.tool_calls[1].arguments = RawBad)
                        => a.llmResponse = ErrorDecision(ParameterError)
                  /\ Len(m.tool_calls) = 0
                        => /\ a.llmResponse = TextDecision(m.content)
                           /\ ~a.invoked
                           /\ a.surfaced = m.content
                  /\ \A k \in 2..Len(m.tool_calls), j \in 1..Len(conversationHistory) :
                        conversationHistory[j].tool_call_id # m.tool_calls[k].id)
    /\ [][\A i \in 1..Len(inflight) :
             (/\ inflight[i].pc = "awaitModel"
              /\ Len(inflight') >= i
              /\ inflight'[i].pc = "awaitTool")
             => /\ executorCalls' <= executorCalls + 1
                /\ inflight'[i].llmResponse.functionName # "initiateFundTransfer"
                      => UNCHANGED transferForm]_vars

\* the exchange that ended last got a reply with two calls, getAccountBalance
\* and then initiateFundTransfer: one executor ran, one tool turn was pushed,
\* and the form was never filled
C17_Witness ==
    /\ last.pc = "done"
    /\ last.firstKind = "ok"
    /\ Len(FirstReplyMessage(last).tool_calls) = 2
    /\ last.llmResponse.functionName = "getAccountBalance"
    /\ last.followUps = 1
    /\ last.finalType = "text"
    /\ executorCalls = 1
    /\ transferForm = InitialForm

\* C18: with enableMockMode set, with or without an API key, every accepted
\* submission returns in its own task with the canned text of mockResponse as
\* the reply shown: no request is sent, nothing is suspended, no executor is
\* invoked and conversationHistory stays empty.
C18_MockModeShortCircuits ==
    config.enableMockMode
    => /\ requestsSent = 0
       /\ executorCalls = 0
       /\ conversationHistory = <<>>
       /\ inflight = <<>>
       /\ ~isProcessing
       /\ last.pc = "done"
             => /\ last.firstKind = "mock"
                /\ last.finalType = "text"
                /\ last.requests = 0
                /\ last.surfaced = Str("Mock LLM response to: \"" \o last.prompt
                                       \o "\". Enable a real LLM provider in config.js for actual AI responses.")
       /\ lastEvent = "send"
             => chatHistory[Len(chatHistory)] = Msg("agent", last.surfaced.v)

\* two submissions were answered in mock mode without an API key
C18_Witness ==
    /\ config.enableMockMode
    /\ config.apiKey = ""
    /\ submissions = 2
    /\ last.pc = "done"
    /\ lastEvent = "send"
    /\ Len(chatHistory) = 4

\* C19 as stated: when no API key is configured (mock mode off) or the
\* provider answers 401, the user is shown a message other than the generic
\* failure text.
C19_CredentialErrorHasGuidance ==
    (/\ last.pc = "done"
     /\ \/ last.firstKind = "noKey"
        \/ last.firstKind = "http" /\ last.firstStatus = 401)
    => /\ Truthy(last.surfaced)
       /\ last.surfaced # Str(GenericError)

TransportFailures == {"reject", "http"}

\* C20: a request whose fetch rejects or gets a status that is not 2xx is
\* not sent again.  The task that receives the failure sends nothing, ends
\* the exchange and clears isProcessing; an exchange whose first request
\* failed has made that one request only; and a request is only ever sent by
\* an accepted submission or as the one follow-up of an exchange whose first
\* request succeeded.
C20_NoAutomaticRetry ==
    /\ [](\A a \in Activations :
            a.firstKind \in TransportFailures
            => a.pc = "done" /\ a.requests = 1 /\ a.followUps = 0)
    /\ [][\A i \in 1..Len(inflight) :
             /\ \A reply \in Replies :
                   (reply.kind \in TransportFailures /\ ModelReply(i, reply))
                   => /\ requestsSent' = requestsSent
                      /\ inflight' = Remove(inflight, i)
                      /\ ~isProcessing'
             /\ \A reply \in FollowUpReplies :
                   (reply.kind \in TransportFailures /\ FollowUpReply(i, reply))
                   => /\ requestsSent' = requestsSent
                      /\ inflight' = Remove(inflight, i)
                      /\ ~isProcessing']_vars
    /\ [][requestsSent' # requestsSent
            => /\ requestsSent' = requestsSent + 1
               /\ \/ lastEvent' = "send" /\ submissions' = submissions + 1
                  \/ /\ lastEvent' = "toolSettles"
                     /\ \E i \in 1..Len(inflight) :
                           /\ inflight[i].pc = "awaitTool"
                           /\ inflight[i].firstKind = "ok"
                           /\ inflight[i].requests = 1
                           /\ inflight'[i].requests = 2]_vars

\* the follow-up request of the second exchange was rejected: two requests
\* for the first exchange, two for the second, and none after the failure
C20_Witness ==
    /\ last.pc = "done"
    /\ last.followUps = 1
    /\ last.finalType = "caught"
    /\ lastEvent = "followUpReply"
    /\ conversationHistory[Len(conversationHistory)].role = "tool"
    /\ inflight = <<>>
    /\ submissions = 2
    /\ requestsSent = 4

\* the constant strings the code can show on a failure path
FixedMessages == {Str(GenericError), Str(ParameterError), Str(ProcessingError), Str(MockFallback)}

C22_AbandonedExchangeAppendsNothing ==
    /\ \A i \in 1..Len(inflight) : inflight[i].abandoned => conversationHistory = <<>>
    /\ (/\ last.abandoned
        /\ inflight = <<>>
        /\ lastEvent \in {"modelReply", "toolSettles", "followUpReply"})
          => conversationHistory = <<>>

\* C23 as stated: when the first reply of a submission is malformed (a body
\* that is not JSON, JSON without choices, or choices[0] without message) the
\* generic message is shown and the history is the history before the
\* submission plus its user turn, with no other entry.
C23_MalformedReplyKeepsHistory ==
    (/\ last.pc = "done"
     /\ last.firstKind \in {"notJSON", "noChoices", "noMessage"}
     /\ lastEvent = "modelReply"
     /\ inflight = <<>>)
    => /\ last.surfaced = Str(GenericError)
       /\ conversationHistory = Append(last.before, UserTurn(last.prompt))

C25_EveryRequestEnumeratesRegistry ==
    \A a \in Activations :
        a.requests >= 1
        => /\ a.sentTools.t = "array"
           /\ Len(a.sentTools.v) = Len(tools)
           /\ \A k \in 1..Len(tools) :
                 /\ a.sentTools.v[k].function.name = tools[k].name
                 /\ a.sentTools.v[k].function.description = tools[k].description
                 /\ a.sentTools.v[k].function.parameters = tools[k].inputSchema

\* C26 as stated: whenever no submission is being processed, every assistant
\* turn of the history that carries tool calls is followed, for each of its
\* calls, by a tool turn that answers the id of that call.
C26_NoDanglingToolCall ==
    (inflight = <<>> /\ ~isProcessing)
    => \A i \in 1..Len(conversationHistory) :
          conversationHistory[i].role = "assistant"
          => \A k \in 1..Len(conversationHistory[i].tool_calls) :
                \E j \in (i + 1)..Len(conversationHistory) :
                    /\ conversationHistory[j].role = "tool"
                    /\ conversationHistory[j].tool_call_id = conversationHistory[i].tool_calls[k].id

\* the ways a provider call fails: the fetch rejects, the status is not 2xx,
\* or the reply is malformed
GatewayFailures == {"reject", "http", "notJSON", "noChoices", "noMessage"}

\* C27 as stated: a consultation of the model that fails, the first one of a
\* submission or the follow-up after a tool result, hands an error decision
\* to processUserPromptWithLLM; no exchange ends in the catch of
\* processUserPromptWithLLM because a consultation raised.
C27_FailedConsultationReturnsErrorDecision ==
    \A a \in Activations :
        a.pc = "done"
        => /\ a.firstKind \in GatewayFailures => a.finalType = "error"
           /\ a.finalType # "caught"

\* C28: once a submission has been accepted (isProcessing is set), the
\* pending fetches and the executor settling, handleSend reaches its finally
\* block: isProcessing is false again and the send button is enabled, no
\* call is left suspended, whichever path the exchange took.
C28_EventuallyIdle ==
    isProcessing ~> (~isProcessing /\ ~sendDisabled /\ inflight = <<>>)

\* a second submission was accepted after the first ended in the catch of
\* processUserPromptWithLLM
C28_Witness ==
    /\ submissions = 2
    /\ isProcessing
    /\ sendDisabled
    /\ Len(inflight) = 1
    /\ last.pc = "done"
    /\ last.finalType = "caught"
    /\ lastEvent = "send"

\* C29 as stated: every accepted submission that has ended has shown one
\* agent message, the final text of the model or an error message.
C29_NoSilentEnd ==
    \A a \in Activations :
        a.pc = "done"
        => /\ Truthy(a.surfaced)
           /\ \E k \in 1..Len(chatHistory) : chatHistory[k] = Msg("agent", a.surfaced.v)

\* the suspended calls of handleSend that await an executor they invoked
AwaitingExecutor == {i \in 1..Len(inflight) : inflight[i].pc = "awaitTool" /\ inflight[i].invoked}

\* C30: at most one invocation of a tool executor is pending at any time, and
\* a submission invokes at most one executor, also when the reply declares
\* several calls and when the user presses send while one is pending.
C30_ExecutorsRunOneAtATime ==
    /\ Cardinality(AwaitingExecutor) <= 1
    /\ executorCalls <= submissions

\* an executor invoked for the first call of a two-call reply is pending, and
\* a press of send has just been ignored
C30_Witness ==
    /\ Cardinality(AwaitingExecutor) = 1
    /\ inflight[1].executed
    /\ executorCalls = 1
    /\ Len(conversationHistory[Len(conversationHistory)].tool_calls) = 2
    /\ lastEvent = "sendIgnored"

\* C31: a submission sends at most two requests to the model, the first and
\* at most one follow-up, and invokes at most one executor; the task that
\* receives the follow-up reply invokes no executor and touches neither the
\* accounts nor the transfer form, also when that reply requests a tool.
C31_BoundedWorkPerSubmission ==
    /\ [](\A a \in Activations :
            /\ a.requests <= 2
            /\ a.followUps <= 1
            /\ a.requests <= 1 + a.followUps)
    /\ [](executorCalls <= submissions /\ requestsSent <= 2 * submissions)
    /\ [][lastEvent' = "followUpReply"
            => /\ executorCalls' = executorCalls
               /\ requestsSent' = requestsSent
               /\ mockAccountData' = mockAccountData
               /\ transferForm' = transferForm]_vars

\* an exchange ended on a follow-up reply that requested a tool: two
\* requests, one executor call
C31_Witness ==
    /\ last.pc = "done"
    /\ last.finalType = "function_call"
    /\ last.requests = 2
    /\ last.executed
    /\ executorCalls = 1
    /\ submissions = 1
    /\ lastEvent = "followUpReply"

\* the user turns appended to the history since the call a was accepted
UserTurnsSince(a) ==
    {k \in (Len(a.before) + 1)..Len(conversationHistory) : conversationHistory[k].role = "user"}

\* C32: a submission that reaches the provider has appended its user turn
\* once, right after the turns of the earlier exchanges, by the time its first
\* request is sent; the messages of every request of the exchange are the
\* system message, then those earlier turns, then that user turn, then the
\* turns appended since.
C32_UserTurnPrecedesEveryRequest ==
    /\ \A a \in Activations :
          a.requests >= 1
          => /\ Len(a.sent) >= Len(a.before) + 2
             /\ a.sent[1].role = "system"
             /\ SubSeq(a.sent, 2, Len(a.before) + 1) = a.before
             /\ a.sent[Len(a.before) + 2] = UserTurn(a.prompt)
             /\ \A k \in (Len(a.before) + 3)..Len(a.sent) : a.sent[k].role # "user"
    /\ \A i \in 1..Len(inflight) :
          /\ inflight[i].requests >= 1
          /\ UserTurnsSince(inflight[i]) = {Len(inflight[i].before) + 1}
          /\ conversationHistory[Len(inflight[i].before) + 1] = UserTurn(inflight[i].prompt)

\* the follow-up request of a second exchange is pending: it carries the
\* turns of the first exchange, then the user turn of the second
C32_Witness ==
    /\ Len(inflight) = 1
    /\ inflight[1].pc = "awaitFollowUp"
    /\ inflight[1].requests = 2
    /\ Len(inflight[1].before) >= 2
    /\ submissions = 2

\* C33 as stated: when the first reply of a submission is plain text, the
\* exchange ends with the history before the submission followed by the user
\* turn and the assistant turn of the reply, no executor was invoked, one
\* request was made, and the message shown in the chat is the content of the
\* reply.
C33_TextReplyEndsExchange ==
    (/\ last.pc = "done"
     /\ last.firstKind = "ok"
     /\ last.finalType = "text"
     /\ lastEvent = "modelReply"
     /\ inflight = <<>>)
    => LET n == Len(conversationHistory)
           reply == conversationHistory[n]
       IN /\ n = Len(last.before) + 2
          /\ SubSeq(conversationHistory, 1, n - 2) = last.before
          /\ conversationHistory[n - 1] = UserTurn(last.prompt)
          /\ reply.role = "assistant"
          /\ reply.tool_calls = <<>>
          /\ ~last.invoked
          /\ ~last.executed
          /\ last.requests = 1
          /\ last.surfaced = reply.content
          /\ chatHistory # <<>>
          /\ chatHistory[Len(chatHistory)] = Msg("agent", reply.content.v)

\* no key is configured and mock mode is off
NoCredential == config.apiKey = "" /\ ~config.enableMockMode

\* C34: with no key configured and mock mode off, a submission sends no
\* request, invokes no executor and leaves conversationHistory as it was
\* (its user turn is not appended); the error message is shown and
\* isProcessing is false again when handleSend returns.
C34_MissingKeyFailsFirst ==
    NoCredential
    => /\ requestsSent = 0
       /\ executorCalls = 0
       /\ conversationHistory = <<>>
       /\ inflight = <<>>
       /\ ~isProcessing
       /\ ~sendDisabled
       /\ last.pc = "done"
            => /\ last.finalType = "error"
               /\ last.requests = 0
               /\ ~last.invoked
               /\ last.surfaced = Str(GenericError)
       /\ lastEvent = "send"
            => chatHistory[Len(chatHistory)] = Msg("agent", GenericError)

\* two submissions were made without a key: both failed and the history is
\* still empty
C34_Witness ==
    /\ NoCredential
    /\ submissions = 2
    /\ last.pc = "done"
    /\ last.finalType = "error"
    /\ Len(chatHistory) = 4
    /\ conversationHistory = <<>>
    /\ lastEvent = "send"

\* C35 as stated: a request that is pending, the first of an exchange or the
\* follow-up after a tool result, was built from the whole conversation
\* history and from all the tools that are registered.
C35_RequestCarriesHistoryAndRegistry ==
    \A i \in 1..Len(inflight) :
        inflight[i].pc \in {"awaitModel", "awaitFollowUp"}
        => /\ Tail(inflight[i].sent) = conversationHistory
           /\ inflight[i].sentTools = RequestTools(tools)

\* C36: no step of an exchange changes the registry: it stays what the last
\* provideContext made of its batch, through lookups of unknown names and
\* executors that throw as through every other step.
C36_RegistryReadOnly ==
    /\ [](tools = SetEach(<<>>, agentCall.batch))
    /\ [][tools' = tools]_vars

\* an exchange asked for a name that is not registered, another ran an
\* executor that threw, and the registry still holds the four tools
C36_Witness ==
    /\ \E a \in Activations : a.invoked /\ ~a.executed
    /\ \E a \in Activations : a.executed /\ a.threw
    /\ Len(tools) = 4
    /\ tools = FidelityTools

\* the inputs that are empty or hold blanks only
BlankInputs == {"", "   "}

\* C37: a press of send with an input that is empty or only blanks changes
\* nothing: isProcessing and the send button, conversationHistory, the chat,
\* the requests sent, the executors called, the accounts and the transfer
\* form stay as they were, and an idle page stays idle.
C37_BlankSubmissionIsNoOp ==
    [][\A input \in BlankInputs :
          HandleSend(input)
          => /\ UNCHANGED <<isProcessing, sendDisabled, conversationHistory, chatHistory, inflight,
                            submissions, requestsSent, executorCalls, mockAccountData,
                            transferForm, tools, last, pushed>>
             /\ lastEvent' \in {"sendEmpty", "sendIgnored"}
             /\ ~isProcessing => lastEvent' = "sendEmpty"]_vars

\* send was pressed on a blank input after an exchange had ended
C37_Witness ==
    /\ lastEvent = "sendEmpty"
    /\ ~isProcessing
    /\ submissions = 1
    /\ last.pc = "done"
    /\ Len(conversationHistory) >= 2
    /\ inflight = <<>>

====
